---- MODULE Spec2Model ----
(***************************************************************************)
(* Model of scripts/package.py: the packaging pipeline of janus.           *)
(*                                                                         *)
(* main() runs the external gradle step and then package_platform() for    *)
(* every entry of the platform registry, in order.  package_platform() is  *)
(* modelled stage by stage (scratch setup, download with cache, extract,   *)
(* copy jar, find java, write launcher, relocate, compress); every stage   *)
(* is one action, the download is split at the points where it can be      *)
(* interrupted.  The state is the file system under target/packaging and   *)
(* build/libs, plus the position of the running script.                    *)
(*                                                                         *)
(* Three specifications: Spec, sequential invocations of the script;       *)
(* ConcSpec, the download step of two invocations that run at the same     *)
(* time on one cache directory; DispatchSpec, package_platform's choices   *)
(* for every combination of the three selectors of a platform descriptor.  *)
(*                                                                         *)
(* Text is a sequence of atoms: an atom is either a run of ordinary        *)
(* characters ("janus-", "bin", "1.2.3") or one special character          *)
(* (" ", "/", "\\", "\n", "\r").  A path is a sequence of components, a    *)
(* component is text.                                                      *)
(***************************************************************************)
EXTENDS Integers, Sequences, FiniteSets, TLC

\* ---------------------------------------------------------------- bounds
\* number of sequential invocations of the script that are explored
MaxRuns == 2
\* number of blocks r.iter_content() delivers for one complete download
TotalChunks == 2

\* ------------------------------------------------------- enums, registry
TGZ == "TGZ"
ZIP == "ZIP"
ArchiveType == {TGZ, ZIP}

BASH == "BASH"
BAT == "BAT"
ShellType == {BASH, BAT}

APP_NAME == "janus"

JDK(id, archive_type) == [id |-> id, archive_type |-> archive_type]

Platform(key, jdk, jar_platform_classifier, shell_type, compress_to) ==
    [key |-> key, jdk |-> jdk,
     jar_platform_classifier |-> jar_platform_classifier,
     shell_type |-> shell_type, compress_to |-> compress_to]

WindowsPlatform ==
    Platform("windows-x86_64", JDK("kona-25.0.1-windows-x86_64", ZIP),
             "windows-x86_64", BAT, ZIP)

LinuxPlatform ==
    Platform("linux-x86_64", JDK("kona-25.0.1-linux-x86_64", TGZ),
             "linux-x86_64", BASH, TGZ)

\* a further registry entry for the registries of three platforms: it shares
\* the runtime of LinuxPlatform and is packed into another output format
LinuxZipPlatform ==
    Platform("linux-x86_64-zip", JDK("kona-25.0.1-linux-x86_64", TGZ),
             "linux-x86_64", BASH, ZIP)

\* the registries explored: the one of the source, a registry of one
\* platform and a registry of three platforms
Registries ==
    { <<WindowsPlatform, LinuxPlatform>>,
      <<LinuxPlatform>>,
      <<LinuxPlatform, WindowsPlatform, LinuxZipPlatform>> }

\* values of args.version; the option is an arbitrary string
Versions == { <<"1.2.3">>, <<"0.1", " ", "beta">> }

\* os.name of the host that runs the script
OsNames == {"posix", "nt"}

\* ------------------------------------------------------------ file names
EXTENSION(archive_type) == IF archive_type = ZIP THEN "zip" ELSE "tar.gz"

\* JDK_DIR / f"{platform.jdk.id}.{extension}"
jdk_archive_path(p) == <<p.jdk.id, ".", EXTENSION(p.jdk.archive_type)>>

\* JDK_DIR / "jdk.part"
jdk_archive_path_tmp == <<"jdk", ".", "part">>

\* f"janus-{version_tag}-{platform.jar_platform_classifier}.jar"
jar_name(p, v) == <<"janus-">> \o v \o <<"-", p.jar_platform_classifier, ".jar">>

\* f"janus-{version_tag}-{platform.key}"
final_dir_name(p, v) == <<"janus-">> \o v \o <<"-", p.key>>

\* f"{final_dir_name}.{'zip' if ... else 'tar.gz'}"
archive_name(p, v) == final_dir_name(p, v) \o <<".", EXTENSION(p.compress_to)>>

script_base_name == "run-janus"

script_name(p) ==
    IF p.shell_type = BAT THEN <<script_base_name, ".bat">>
    ELSE <<script_base_name, ".sh">>

\* ------------------------------------------------------- files and trees
File(data, mode) == [data |-> data, mode |-> mode]

\* mode of a file the script creates without chmod
DefaultMode(os) == IF os = "nt" THEN "0o666" ELSE "0o644"

\* a directory tree: a function from relative paths to files
EmptyDir == << >>

\* f with path k set to v (k may be new)
Put(f, k, v) == [x \in (DOMAIN f) \cup {k} |-> IF x = k THEN v ELSE f[x]]

\* f without the keys of ks
Drop(f, ks) == [x \in (DOMAIN f) \ ks |-> f[x]]

\* the files of d, then those of e on top (extractall / copy into a tree)
Overlay(d, e) == [x \in (DOMAIN d) \cup (DOMAIN e) |->
                     IF x \in DOMAIN e THEN e[x] ELSE d[x]]

\* the content kinds of a runtime distribution the server delivers
ContentKinds == {"unix", "win", "malformed"}

\* the tree packed in a readable runtime archive of the given kind; in a
\* "javadir" archive bin/java is a directory and lib/java is a file
RuntimeTree(kind, id) ==
    LET f(n) == File(<<"jdk", id, n>>, "0o755")
        top == <<"jdk">>
    IN  IF kind = "unix"
        THEN ( <<top, <<"bin">>, <<"java">>>> :> f("java") )
          @@ ( <<top, <<"bin">>, <<"javac">>>> :> f("javac") )
          @@ ( <<top, <<"lib">>, <<"modules">>>> :> f("modules") )
        ELSE IF kind = "javadir"
        THEN ( <<top, <<"bin">>, <<"java">>, <<"launcher">>>> :> f("launcher") )
          @@ ( <<top, <<"lib">>, <<"java">>>> :> f("java") )
          @@ ( <<top, <<"lib">>, <<"modules">>>> :> f("modules") )
        ELSE ( <<top, <<"bin">>, <<"java.exe">>>> :> f("java.exe") )
          @@ ( <<top, <<"bin">>, <<"javaw.exe">>>> :> f("javaw.exe") )
          @@ ( <<top, <<"lib">>, <<"modules">>>> :> f("modules") )

\* the bytes of a runtime archive on disk: what was requested (id), what
\* the server packed (kind), how many blocks are written, and whether the
\* file was there before the first run (origin "pre") or downloaded ("net")
Blob(id, kind, chunks, origin) ==
    [id |-> id, kind |-> kind, chunks |-> chunks, origin |-> origin]

Complete(blob) == blob.chunks = TotalChunks

\* zipfile / tarfile can read the archive
Extractable(blob) == Complete(blob) /\ blob.kind # "malformed"

\* ------------------------------------------------------ launcher scripts
NATIVE_FLAG == "--enable-native-access=ALL-UNNAMED"

generate_bash_script(java_exec_path, jar_path) ==
    <<"#!/bin/bash", "\n">>
    \o java_exec_path \o <<" ", NATIVE_FLAG, " ", "-jar", " ">>
    \o jar_path \o <<" ", "\"$@\"", "\n">>

generate_bat_script(java_exec_path, jar_path) ==
    <<"@echo off", "\r", "\n">>
    \o java_exec_path \o <<" ", NATIVE_FLAG, " ", "-jar", " ">>
    \o jar_path \o <<" ", "%*", "\r", "\n">>

\* os.sep
Sep(os) == IF os = "nt" THEN "\\" ELSE "/"

RECURSIVE PathStr(_, _)
\* str(path): the components joined by os.sep
PathStr(path, os) ==
    IF Len(path) = 0 THEN << >>
    ELSE IF Len(path) = 1 THEN path[1]
    ELSE path[1] \o <<Sep(os)>> \o PathStr(Tail(path), os)

RECURSIVE WriteText(_, _)
\* Path.write_text(content): text mode, every "\n" becomes os.linesep
WriteText(content, os) ==
    IF Len(content) = 0 THEN << >>
    ELSE IF content[1] = "\n" /\ os = "nt"
         THEN <<"\r", "\n">> \o WriteText(Tail(content), os)
         ELSE <<content[1]>> \o WriteText(Tail(content), os)

\* the content the script hands to write_text for platform p
LauncherContent(p, java_bin_path, v, os) ==
    IF p.shell_type = BAT
    THEN generate_bat_script(PathStr(java_bin_path, os), jar_name(p, v))
    ELSE generate_bash_script(<<".", "/">> \o PathStr(java_bin_path, os),
                              jar_name(p, v))

\* mode of the launcher after write_text and the chmod of the BASH branch;
\* on Windows os.chmod changes the read-only flag only
LauncherMode(p, os) ==
    IF p.shell_type = BASH /\ os # "nt" THEN "0o755" ELSE DefaultMode(os)

\* names that match the pattern java*
JavaPrefixed == { <<"java">>, <<"java.exe">>, <<"javac">>, <<"javaw.exe">> }

\* a search whose name follows the format of the runtime archive
JavaNameByArchive(p) ==
    IF p.jdk.archive_type = ZIP THEN <<"java.exe">> ELSE <<"java">>

\* the name the loop over rglob("bin/java*") accepts
JavaName(p) == IF p.shell_type = BAT THEN <<"java.exe">> ELSE <<"java">>

\* the entries of tree d: its files and the directories that hold them
Entries(d) ==
    UNION { { SubSeq(path, 1, k) : k \in 1..Len(path) } : path \in DOMAIN d }

\* the paths of tree d that rglob("bin/java*") yields and the loop accepts;
\* the pattern matches files and directories alike
JavaCandidates(d, p) ==
    { path \in Entries(d) :
        /\ Len(path) >= 2
        /\ path[Len(path) - 1] = <<"bin">>
        /\ path[Len(path)] \in JavaPrefixed
        /\ path[Len(path)] = JavaName(p) }

\* ------------------------------------------------- relocation, archives
\* shutil.move without the rmtree before it: the folder is moved into an
\* existing final_path, under its own name
RelocatedInto(dirs, name, bundle) ==
    IF name \in DOMAIN dirs
    THEN Put(dirs, name,
             Overlay(dirs[name],
                     [q \in { <<<<"moved">>>> \o path : path \in DOMAIN bundle }
                         |-> bundle[Tail(q)]]))
    ELSE Put(dirs, name, bundle)

\* shutil.rmtree(final_path) if it exists, then shutil.move(tmp, final_path)
Relocated(dirs, name, bundle) ==
    LET cleared == IF name \in DOMAIN dirs THEN Drop(dirs, {name}) ELSE dirs
    IN  Put(cleared, name, bundle)

Archive(format, entries, complete) ==
    [format |-> format, entries |-> entries, complete |-> complete]

\* the entries zipf.write(file_path, file_path.relative_to(final_path)) adds
ZipEntries(bundle, root) == bundle

\* the entries tar.add(final_path, arcname=final_dir_name) adds
TarEntries(bundle, root) ==
    [q \in { <<root>> \o path : path \in DOMAIN bundle } |-> bundle[Tail(q)]]

\* an archive of the files directly in final_path only (no walk)
CompressedTopLevel(p, bundle, root) ==
    LET top == [path \in { q \in DOMAIN bundle : Len(q) = 1 } |-> bundle[path]]
    IN  IF p.compress_to = ZIP
        THEN Archive(ZIP, ZipEntries(top, root), TRUE)
        ELSE Archive(TGZ, TarEntries(top, root), TRUE)

Compressed(p, bundle, root) ==
    IF p.compress_to = ZIP
    THEN Archive(ZIP, ZipEntries(bundle, root), TRUE)
    ELSE Archive(TGZ, TarEntries(bundle, root), TRUE)

\* ----------------------------------------------------------------- state
VARIABLES
    platforms,      \* the registry (an ordered table of Platform records)
    osName,         \* os.name of the host
    runs,           \* invocations of the script started so far
    version_tag,    \* args.version of the current invocation
    pc,             \* position of the script
    idx,            \* index in platforms of the platform being packaged
    res,            \* exit code of the last finished invocation
    tmp,            \* TMP_DIR: [exists, subs: platform key -> tree]
    jdks,           \* JDK_DIR: [exists, files: file name -> Blob]
    out,            \* OUTPUT_DIR: [exists, dirs: name -> tree, archives]
    libs,           \* LIBS_DIR: the set of jar names present
    resp,           \* content kind of the response being streamed
    java_bin_path,  \* result of the search for bin/java
    events,         \* the steps executed in the current invocation, in order
    failure,        \* the failure that ended the current invocation
    netCalls,       \* per runtime id: requests.get calls over all invocations
    fetchLog,       \* per runtime id: the fetches completed, over all invocations
    gradle_res,     \* return code of gradle_package_all in this invocation
    fs0,            \* tmp, jdks and out as they were when the invocation began
    prev,           \* version, exit code and failure of the invocation before
    assembled,      \* per platform key: the bundle this invocation relocated
    cache,          \* JDK_DIR under two invocations: file name -> inode
    inodes,         \* the files of JDK_DIR under two invocations, by inode
    procs,          \* the two invocations: position, platform, open file
    collisions,     \* the times one invocation hit the other's jdk.part
    dispatched      \* two platform descriptors and what is selected for them

\* the state of the interleaved invocations
concurrent == <<cache, inodes, procs, collisions>>

vars == <<platforms, osName, runs, version_tag, pc, idx, res, tmp, jdks, out,
          libs, resp, java_bin_path, events, failure, netCalls, fetchLog,
          gradle_res, fs0, prev, assembled, concurrent, dispatched>>

Keys == { platforms[i].key : i \in 1..Len(platforms) }
Ids == { platforms[i].jdk.id : i \in 1..Len(platforms) }
platform == platforms[idx]
platform_tmp_folder == tmp.subs[platform.key]

NoFailure == [plat |-> 0, stage |-> "none", kind |-> "none"]
NoPath == << >>
NoRun == [version |-> << >>, res |-> -1, kind |-> "none"]
NoDispatch == [done |-> FALSE]

\* ------------------------------------------------------- initial states
StaleFile == File(<<"stale">>, "0o644")

\* a tree left behind by an earlier invocation
StaleTree == ( <<<<"old">>, <<"residue">>>> :> StaleFile )

InitTmp ==
    { [exists |-> FALSE, subs |-> EmptyDir],
      [exists |-> TRUE, subs |-> (platforms[1].key :> StaleTree)] }

\* the runtime archive of a platform as its vendor ships it
VendorKind(p) == IF p.shell_type = BAT THEN "win" ELSE "unix"

CacheOf(complete) ==
    [n \in { jdk_archive_path(platforms[i]) : i \in 1..Len(platforms) } |->
        LET p == CHOOSE q \in { platforms[i] : i \in 1..Len(platforms) } :
                     jdk_archive_path(q) = n
        IN  Blob(p.jdk.id, VendorKind(p),
                 IF complete THEN TotalChunks ELSE 1, "pre")]

\* cache entries that were put there by hand: readable archives in which
\* bin/java is a directory
CacheByHand ==
    [n \in DOMAIN CacheOf(TRUE) |-> [CacheOf(TRUE)[n] EXCEPT !.kind = "javadir"]]

InitJdks ==
    { [exists |-> FALSE, files |-> EmptyDir],
      [exists |-> TRUE,
       files |-> (jdk_archive_path_tmp :> Blob("stale", "unix", 1, "pre"))],
      [exists |-> TRUE, files |-> CacheOf(TRUE)],
      [exists |-> TRUE, files |-> CacheOf(FALSE)],
      [exists |-> TRUE, files |-> CacheByHand] }

InitOut ==
    { [exists |-> FALSE, dirs |-> EmptyDir, archives |-> EmptyDir],
      [exists |-> TRUE,
       dirs |-> [n \in { final_dir_name(platforms[i], <<"1.2.3">>) :
                           i \in 1..Len(platforms) } |-> StaleTree],
       archives |-> [n \in { archive_name(platforms[i], <<"1.2.3">>) :
                               i \in 1..Len(platforms) } |->
                        LET p == CHOOSE q \in { platforms[i] : i \in 1..Len(platforms) } :
                                     archive_name(q, <<"1.2.3">>) = n
                        IN  Archive(p.compress_to, StaleTree, TRUE)]] }

Init ==
    /\ platforms \in Registries
    /\ osName \in OsNames
    /\ runs = 0
    /\ version_tag = << >>
    /\ pc = "idle"
    /\ idx = 0
    /\ res = -1
    /\ tmp \in InitTmp
    /\ jdks \in InitJdks
    /\ out \in InitOut
    /\ libs = {}
    /\ resp = "none"
    /\ java_bin_path = NoPath
    /\ events = << >>
    /\ failure = NoFailure
    /\ netCalls = [i \in Ids |-> 0]
    /\ fetchLog = [i \in Ids |-> << >>]
    /\ gradle_res = -1
    /\ fs0 = <<tmp, jdks, out>>
    /\ prev = NoRun
    /\ assembled = EmptyDir
    /\ cache = EmptyDir
    /\ inodes = << >>
    /\ procs = << >>
    /\ collisions = {}
    /\ dispatched = NoDispatch

\* --------------------------------------------------------------- helpers
Event(plat, stage, step) == [plat |-> plat, stage |-> stage, step |-> step]

\* where the script goes on: position, loop index, exit code
Goto(next, i, code) == [pc |-> next, idx |-> i, res |-> code]

\* an exception that is caught in main's loop, which then goes on
RaisedAndCaught(i) ==
    IF i < Len(platforms) THEN Goto("scratch", i + 1, -1) ELSE Goto("done", i, 1)

\* an exception nothing catches leaves package_platform and main; the
\* interpreter exits with status 1
Raised(i) == Goto("done", i, 1)

\* a loop in main that goes on whatever package_platform returned
ReturnedIgnored(code, i) ==
    IF i < Len(platforms) THEN Goto("scratch", i + 1, -1) ELSE Goto("done", i, 0)

\* main after "res = package_platform(...)": return res if it is not 0,
\* else the next platform, or "return 0" after the last one
Returned(code, i) ==
    IF code # 0 THEN Goto("done", i, code)
    ELSE IF i < Len(platforms) THEN Goto("scratch", i + 1, -1)
    ELSE Goto("done", i, 0)

\* a main that does not look at the return code of the build
AfterBuildIgnored(code) == Goto("scratch", 1, -1)

\* a main whose loop begins at the last entry of the registry
AfterBuildFromLast(code) ==
    IF code # 0 THEN Goto("done", 0, code) ELSE Goto("scratch", Len(platforms), -1)

\* main after "res = gradle_package_all()"
AfterBuild(code) ==
    IF code # 0 THEN Goto("done", 0, code) ELSE Goto("scratch", 1, -1)

\* the step failed: the invocation goes on at `to` (it ends)
Fail(stage, step, kind, to) ==
    /\ pc' = to.pc
    /\ idx' = to.idx
    /\ res' = to.res
    /\ failure' = [plat |-> idx, stage |-> stage, kind |-> kind]
    /\ events' = Append(events, Event(idx, stage, step))

\* the step succeeded and the next statement of package_platform follows
Step(stage, step, next) ==
    /\ pc' = next
    /\ events' = Append(events, Event(idx, stage, step))
    /\ UNCHANGED <<idx, res, failure>>

\* what the external build leaves in LIBS_DIR: every jar of the version, or
\* every jar but the one of the last platform
AllJars(v) == { jar_name(platforms[i], v) : i \in 1..Len(platforms) }

LibsChoices(v) ==
    { AllJars(v), AllJars(v) \ {jar_name(platforms[Len(platforms)], v)} }

\* return codes of the gradle process
BuildCodes == {0, 2}

\* ------------------------------------------------------------------ main
\* the script is started with --version v
StartRun ==
    /\ pc \in {"idle", "done"}
    /\ runs < MaxRuns
    /\ \E v \in Versions : version_tag' = v
    /\ runs' = runs + 1
    /\ pc' = "build"
    /\ idx' = 0
    /\ res' = -1
    /\ resp' = "none"
    /\ java_bin_path' = NoPath
    /\ events' = << >>
    /\ failure' = NoFailure
    /\ gradle_res' = -1
    /\ fs0' = <<tmp, jdks, out>>
    /\ prev' = IF runs = 0 THEN NoRun
                ELSE [version |-> version_tag, res |-> res, kind |-> failure.kind]
    /\ assembled' = EmptyDir
    /\ UNCHANGED <<concurrent, dispatched,
                   platforms, osName, tmp, jdks, out, libs, netCalls, fetchLog>>

\* res = gradle_package_all(); if res != 0: return res
gradle_package_all ==
    /\ pc = "build"
    /\ \E code \in BuildCodes, jars \in LibsChoices(version_tag) :
        /\ libs' = jars
        /\ gradle_res' = code
        /\ LET to == AfterBuild(code)
           IN  /\ pc' = to.pc
               /\ idx' = to.idx
               /\ res' = to.res
               /\ failure' = IF code # 0
                             THEN [plat |-> 0, stage |-> "build",
                                   kind |-> "BuildFailure"]
                             ELSE failure
               /\ events' = Append(events, Event(0, "build", "gradle"))
    /\ UNCHANGED <<concurrent, dispatched,
                   platforms, osName, runs, version_tag, tmp, jdks, out, resp,
                   java_bin_path, netCalls, fetchLog, fs0, prev, assembled>>

\* ------------------------------------------------------ package_platform
\* 1. shutil.rmtree(TMP_DIR, onexc=remove_readonly); the mkdirs; the
\*    platform's folder.  rmtree reports a missing TMP_DIR to
\*    remove_readonly, whose os.chmod raises FileNotFoundError.
\* a step 1 that clears the output directory as it clears the scratch root
OutputCleared(o) == [exists |-> TRUE, dirs |-> EmptyDir, archives |-> EmptyDir]

\* OUTPUT_DIR.mkdir(parents=True, exist_ok=True)
OutputEnsured(o) == [o EXCEPT !.exists = TRUE]

ScratchSetup ==
    /\ pc = "scratch"
    /\ IF ~tmp.exists
       THEN /\ Fail("scratch", "rmtree", "ScratchFailure", Raised(idx))
            /\ UNCHANGED <<tmp, jdks, out>>
       ELSE /\ tmp' = [exists |-> TRUE, subs |-> (platform.key :> EmptyDir)]
            /\ out' = OutputEnsured(out)
            /\ jdks' = [jdks EXCEPT !.exists = TRUE]
            /\ Step("scratch", "rmtree", "fetch")
    /\ UNCHANGED <<concurrent, dispatched,
                   platforms, osName, runs, version_tag, libs, resp,
                   java_bin_path, netCalls, fetchLog, gradle_res, fs0, prev,
                   assembled>>

\* a fetch that leaves a temporary file of an earlier run where it is
UnlinkedNever(files) == files

\* a fetch that also throws away the cache entries that cannot be read
UnlinkedWithUnreadable(files) ==
    Drop(files, {jdk_archive_path_tmp}
                   \cup { n \in DOMAIN files : ~Extractable(files[n]) })

\* if jdk_archive_path_tmp.exists(): jdk_archive_path_tmp.unlink()
Unlinked(files) == Drop(files, {jdk_archive_path_tmp})

\* a fetch that never looks into the cache
CacheHitNever(files, p) == FALSE

\* if jdk_archive_path.exists()
CacheHit(files, p) == jdk_archive_path(p) \in DOMAIN files

Fetched(how, path) == [how |-> how, path |-> path]

\* 2. remove a stale jdk.part, then look for the cache entry
FetchCheck ==
    /\ pc = "fetch"
    /\ jdks' = [jdks EXCEPT !.files = Unlinked(@)]
    /\ IF CacheHit(jdks.files, platform)
       THEN /\ Step("download", "hit", "extract")
            /\ fetchLog' = [fetchLog EXCEPT ![platform.jdk.id] =
                              Append(@, Fetched("hit", jdk_archive_path(platform)))]
       ELSE /\ Step("download", "miss", "request")
            /\ UNCHANGED fetchLog
    /\ UNCHANGED <<concurrent, dispatched,
                   platforms, osName, runs, version_tag, tmp, out, libs, resp,
                   java_bin_path, netCalls, gradle_res, fs0, prev, assembled>>

\* requests.get, r.raise_for_status(), open(jdk_archive_path_tmp, 'wb')
Request ==
    /\ pc = "request"
    /\ netCalls' = [netCalls EXCEPT ![platform.jdk.id] = @ + 1]
    /\ \/ /\ Fail("download", "request", "DownloadFailure", Raised(idx))
          /\ UNCHANGED <<jdks, resp>>
       \/ \E kind \in ContentKinds :
          /\ resp' = kind
          /\ jdks' = [jdks EXCEPT !.files =
                        Put(@, jdk_archive_path_tmp,
                            Blob(platform.jdk.id, kind, 0, "net"))]
          /\ Step("download", "request", "stream")
    /\ UNCHANGED <<concurrent, dispatched,
                   platforms, osName, runs, version_tag, tmp, out, libs,
                   java_bin_path, fetchLog, gradle_res, fs0, prev, assembled>>

\* a loop that is left before the last block was written
StreamEndedEarly(blob) == blob.chunks >= 1

\* the loop over r.iter_content(block_size) has written the last block
StreamEnded(blob) == blob.chunks = TotalChunks

\* one round of "for data in r.iter_content(block_size): f.write(data)",
\* or the transport error that ends the loop early
WriteChunk ==
    /\ pc = "stream"
    /\ ~StreamEnded(jdks.files[jdk_archive_path_tmp])
    /\ jdks.files[jdk_archive_path_tmp].chunks < TotalChunks
    /\ \/ /\ jdks' = [jdks EXCEPT !.files[jdk_archive_path_tmp].chunks = @ + 1]
          /\ Step("download", "write", "stream")
       \/ /\ Fail("download", "write", "DownloadFailure", Raised(idx))
          /\ UNCHANGED jdks
    /\ UNCHANGED <<concurrent, dispatched,
                   platforms, osName, runs, version_tag, tmp, out, libs, resp,
                   java_bin_path, netCalls, fetchLog, gradle_res, fs0, prev,
                   assembled>>

\* a copy to the final name that leaves the temporary file where it is
CopiedInto(files, name) == Put(files, name, files[jdk_archive_path_tmp])

\* jdk_archive_path_tmp.rename(jdk_archive_path)
RenamedInto(files, name) ==
    Put(Drop(files, {jdk_archive_path_tmp}), name, files[jdk_archive_path_tmp])

Rename ==
    /\ pc = "stream"
    /\ StreamEnded(jdks.files[jdk_archive_path_tmp])
    /\ jdks' = [jdks EXCEPT !.files = RenamedInto(@, jdk_archive_path(platform))]
    /\ fetchLog' = [fetchLog EXCEPT ![platform.jdk.id] =
                      Append(@, Fetched("download", jdk_archive_path(platform)))]
    /\ Step("download", "rename", "extract")
    /\ UNCHANGED <<concurrent, dispatched,
                   platforms, osName, runs, version_tag, tmp, out, libs, resp,
                   java_bin_path, netCalls, gradle_res, fs0, prev, assembled>>

\* mode of an extracted file on the host
HostMode(mode, os) == IF os = "nt" THEN DefaultMode(os) ELSE mode

\* the tree zip_ref.extractall / tar_ref.extractall writes
Extracted(blob, os) ==
    LET t == RuntimeTree(blob.kind, blob.id)
    IN  [path \in DOMAIN t |-> File(t[path].data, HostMode(t[path].mode, os))]

\* what extractall may have written when it raises: nothing, or the members
\* it read before the damaged part of the archive
PartlyExtracted(blob, os) ==
    { EmptyDir,
      ( <<<<"jdk">>, <<"lib">>, <<"modules">>>> :>
           File(<<"jdk", blob.id, "modules">>, HostMode("0o755", os)) ) }

\* 3. extract the cache entry into platform_tmp_folder
Extract ==
    /\ pc = "extract"
    /\ LET blob == jdks.files[jdk_archive_path(platform)]
       IN  IF ~Extractable(blob)
           THEN /\ Fail("extract", "extractall", "ExtractionFailure", Raised(idx))
                /\ \E left \in PartlyExtracted(blob, osName) :
                      tmp' = [tmp EXCEPT !.subs[platform.key] = Overlay(@, left)]
           ELSE /\ tmp' = [tmp EXCEPT !.subs[platform.key] =
                              Overlay(@, Extracted(blob, osName))]
                /\ Step("extract", "extractall", "copyjar")
    /\ UNCHANGED <<concurrent, dispatched,
                   platforms, osName, runs, version_tag, jdks, out, libs, resp,
                   java_bin_path, netCalls, fetchLog, gradle_res, fs0, prev,
                   assembled>>

\* 4. copy the jar, or "return 1" if it is not in LIBS_DIR
CopyJar ==
    /\ pc = "copyjar"
    /\ LET jar == jar_name(platform, version_tag)
       IN  IF jar \notin libs
           THEN /\ Fail("assemble", "copyjar", "MissingArtifact", Returned(1, idx))
                /\ UNCHANGED tmp
           ELSE /\ tmp' = [tmp EXCEPT !.subs[platform.key] =
                              Put(@, <<jar>>,
                                  File(<<"jar">> \o jar, DefaultMode(osName)))]
                /\ Step("assemble", "copyjar", "findjava")
    /\ UNCHANGED <<concurrent, dispatched,
                   platforms, osName, runs, version_tag, jdks, out, libs, resp,
                   java_bin_path, netCalls, fetchLog, gradle_res, fs0, prev,
                   assembled>>

\* 5. the loop over rglob("bin/java*"): the first accepted path in the
\*    order the file system lists them, or "return 1"
FindJava ==
    /\ pc = "findjava"
    /\ LET found == JavaCandidates(platform_tmp_folder, platform)
       IN  IF found = {}
           THEN /\ Fail("assemble", "findjava", "MissingExecutable",
                        Returned(1, idx))
                /\ UNCHANGED java_bin_path
           ELSE /\ \E path \in found : java_bin_path' = path
                /\ Step("assemble", "findjava", "script")
    /\ UNCHANGED <<concurrent, dispatched,
                   platforms, osName, runs, version_tag, tmp, jdks, out, libs,
                   resp, netCalls, fetchLog, gradle_res, fs0, prev, assembled>>

\* the launcher file of platform p
Launcher(p, path, v, os) ==
    File(WriteText(LauncherContent(p, path, v, os), os), LauncherMode(p, os))

\* 6. write the run script and chmod it
WriteScript ==
    /\ pc = "script"
    /\ tmp' = [tmp EXCEPT !.subs[platform.key] =
                 Put(@, <<script_name(platform)>>,
                     Launcher(platform, java_bin_path, version_tag, osName))]
    /\ Step("assemble", "script", "relocate")
    /\ UNCHANGED <<concurrent, dispatched,
                   platforms, osName, runs, version_tag, jdks, out, libs, resp,
                   java_bin_path, netCalls, fetchLog, gradle_res, fs0, prev,
                   assembled>>

\* 7. move platform_tmp_folder to OUTPUT_DIR / final_dir_name
Relocate ==
    /\ pc = "relocate"
    /\ out' = [out EXCEPT !.dirs =
                 Relocated(@, final_dir_name(platform, version_tag),
                           platform_tmp_folder)]
    /\ tmp' = [tmp EXCEPT !.subs = Drop(@, {platform.key})]
    /\ assembled' = Put(assembled, platform.key, platform_tmp_folder)
    /\ Step("relocate", "move", "compress")
    /\ UNCHANGED <<concurrent, dispatched,
                   platforms, osName, runs, version_tag, jdks, libs, resp,
                   java_bin_path, netCalls, fetchLog, gradle_res, fs0, prev>>

\* 8. write the archive and "return 0"; an I/O error while writing leaves an
\*    unfinished archive behind
Compress ==
    /\ pc = "compress"
    /\ LET root == final_dir_name(platform, version_tag)
           name == archive_name(platform, version_tag)
       IN  \/ /\ out' = [out EXCEPT !.archives =
                           Put(@, name, Compressed(platform, out.dirs[root], root))]
              /\ LET to == Returned(0, idx)
                 IN  /\ pc' = to.pc
                     /\ idx' = to.idx
                     /\ res' = to.res
              /\ events' = Append(events, Event(idx, "compress", "write"))
              /\ UNCHANGED failure
           \/ /\ out' = [out EXCEPT !.archives =
                           Put(@, name, Archive(platform.compress_to, EmptyDir, FALSE))]
              /\ Fail("compress", "write", "CompressionFailure", Raised(idx))
    /\ UNCHANGED <<concurrent, dispatched,
                   platforms, osName, runs, version_tag, tmp, jdks, libs, resp,
                   java_bin_path, netCalls, fetchLog, gradle_res, fs0, prev,
                   assembled>>

package_platform ==
    \/ ScratchSetup
    \/ FetchCheck
    \/ Request
    \/ WriteChunk
    \/ Rename
    \/ Extract
    \/ CopyJar
    \/ FindJava
    \/ WriteScript
    \/ Relocate
    \/ Compress

main == StartRun \/ gradle_package_all \/ package_platform

Next == main

Spec == Init /\ [][Next]_vars

\* ------------------------------------------- two interleaved invocations
\* Step 2 of package_platform (the download with its cache) for two
\* invocations of the script that run at the same time on one JDK_DIR.  A
\* file is an inode, a name of the directory refers to an inode, an open file
\* object refers to an inode and has a position.  The other steps of
\* package_platform do not write to JDK_DIR; of them only the extraction,
\* which reads the cache entry, is kept.
Invocations == {1, 2}

\* a temporary name that is namespaced by the invocation
TmpPathPerRun(i) == <<"jdk", ".", "part", ".", IF i = 1 THEN "a" ELSE "b">>

\* jdk_archive_path_tmp as invocation i computes it: one fixed name
TmpPathOf(i) == jdk_archive_path_tmp

\* a part of a file that was never written
Hole == "hole"

\* the data of a file after a block of runtime id was written at block pos
Written(data, pos, id) ==
    [k \in 1..(IF pos > Len(data) THEN pos ELSE Len(data)) |->
        IF k = pos THEN id ELSE IF k <= Len(data) THEN data[k] ELSE Hole]

\* the complete archive of runtime id
Content(id) == [k \in 1..TotalChunks |-> id]

\* an invocation: its position, the registry index of its platform, the
\* inode of its download in flight (0: none), whether its file object is
\* open, and the block it writes next
Proc(at, i, ino, open, pos) ==
    [pc |-> at, idx |-> i, ino |-> ino, open |-> open, pos |-> pos]

PlatformOf(i) == platforms[procs[i].idx]

\* the invocations other than i whose download in flight is inode n
InFlightOn(n, i) == { j \in Invocations \ {i} : procs[j].ino = n }

\* the file object of another invocation is open on inode n
OpenElsewhere(n, i) == \E j \in InFlightOn(n, i) : procs[j].open

Collision(by, of, how) == [by |-> by, of |-> of, how |-> how]

\* invocation i hit inode n while it was the download in flight of another
Hit(i, n, how) == collisions \cup { Collision(i, j, how) : j \in InFlightOn(n, i) }

\* an exception ends invocation i; its file object is closed
Ended(i) == [procs EXCEPT ![i] = Proc("failed", @.idx, 0, FALSE, 0)]

At(i, at) == [procs EXCEPT ![i].pc = at]

sequential == <<platforms, osName, runs, version_tag, pc, idx, res, tmp, jdks,
                out, libs, resp, java_bin_path, events, failure, netCalls,
                fetchLog, gradle_res, fs0, prev, assembled, dispatched>>

ConcInit ==
    /\ platforms \in Registries
    /\ osName \in OsNames
    /\ runs = 0
    /\ version_tag = << >>
    /\ pc = "idle"
    /\ idx = 0
    /\ res = -1
    /\ tmp = [exists |-> TRUE, subs |-> EmptyDir]
    /\ jdks = [exists |-> TRUE, files |-> EmptyDir]
    /\ out = [exists |-> TRUE, dirs |-> EmptyDir, archives |-> EmptyDir]
    /\ libs = {}
    /\ resp = "none"
    /\ java_bin_path = NoPath
    /\ events = << >>
    /\ failure = NoFailure
    /\ netCalls = [i \in Ids |-> 0]
    /\ fetchLog = [i \in Ids |-> << >>]
    /\ gradle_res = -1
    /\ fs0 = <<tmp, jdks, out>>
    /\ prev = NoRun
    /\ assembled = EmptyDir
    /\ dispatched = NoDispatch
    /\ \E stale \in BOOLEAN :
          /\ cache = IF stale THEN (jdk_archive_path_tmp :> 1) ELSE EmptyDir
          /\ inodes = IF stale THEN << <<"stale">> >> ELSE << >>
    /\ procs = [i \in Invocations |-> Proc("exists", 1, 0, FALSE, 0)]
    /\ collisions = {}

\* if jdk_archive_path_tmp.exists():
PExists(i) ==
    /\ procs[i].pc = "exists"
    /\ procs' = At(i, IF TmpPathOf(i) \in DOMAIN cache THEN "unlink" ELSE "lookup")
    /\ UNCHANGED <<cache, inodes, collisions, sequential>>

\* jdk_archive_path_tmp.unlink(): FileNotFoundError if the name is gone,
\* on Windows PermissionError if the file is open
PUnlink(i) ==
    /\ procs[i].pc = "unlink"
    /\ IF \/ TmpPathOf(i) \notin DOMAIN cache
          \/ osName = "nt" /\ OpenElsewhere(cache[TmpPathOf(i)], i)
       THEN /\ procs' = Ended(i)
            /\ UNCHANGED <<cache, collisions>>
       ELSE /\ cache' = Drop(cache, {TmpPathOf(i)})
            /\ collisions' = Hit(i, cache[TmpPathOf(i)], "unlink")
            /\ procs' = At(i, "lookup")
    /\ UNCHANGED <<inodes, sequential>>

\* if jdk_archive_path.exists(): ... else: ...
PLookup(i) ==
    /\ procs[i].pc = "lookup"
    /\ procs' = At(i, IF CacheHit(cache, PlatformOf(i)) THEN "extract" ELSE "request")
    /\ UNCHANGED <<cache, inodes, collisions, sequential>>

\* requests.get(...); r.raise_for_status()
PRequest(i) ==
    /\ procs[i].pc = "request"
    /\ \/ procs' = At(i, "open")
       \/ procs' = Ended(i)
    /\ UNCHANGED <<cache, inodes, collisions, sequential>>

\* open(jdk_archive_path_tmp, 'wb'): truncates the file of that name, or
\* creates one
POpen(i) ==
    /\ procs[i].pc = "open"
    /\ IF TmpPathOf(i) \in DOMAIN cache
       THEN LET n == cache[TmpPathOf(i)]
            IN  /\ inodes' = [inodes EXCEPT ![n] = << >>]
                /\ collisions' = Hit(i, n, "truncate")
                /\ procs' = [procs EXCEPT ![i] = Proc("write", @.idx, n, TRUE, 1)]
                /\ UNCHANGED cache
       ELSE LET n == Len(inodes) + 1
            IN  /\ inodes' = Append(inodes, << >>)
                /\ cache' = Put(cache, TmpPathOf(i), n)
                /\ procs' = [procs EXCEPT ![i] = Proc("write", @.idx, n, TRUE, 1)]
                /\ UNCHANGED collisions
    /\ UNCHANGED sequential

\* one round of "for data in r.iter_content(block_size): f.write(data)",
\* or the transport error that ends the loop early
PWrite(i) ==
    /\ procs[i].pc = "write"
    /\ procs[i].pos <= TotalChunks
    /\ \/ /\ inodes' = [inodes EXCEPT ![procs[i].ino] =
                           Written(@, procs[i].pos, PlatformOf(i).jdk.id)]
          /\ procs' = [procs EXCEPT ![i].pos = @ + 1]
       \/ /\ procs' = Ended(i)
          /\ UNCHANGED inodes
    /\ UNCHANGED <<cache, collisions, sequential>>

\* the end of "with open(...) as f": the file object is closed
PClose(i) ==
    /\ procs[i].pc = "write"
    /\ procs[i].pos > TotalChunks
    /\ procs' = [procs EXCEPT ![i].open = FALSE, ![i].pc = "rename"]
    /\ UNCHANGED <<cache, inodes, collisions, sequential>>

\* jdk_archive_path_tmp.rename(jdk_archive_path): FileNotFoundError if the
\* name is gone; on Windows PermissionError if the file is open and
\* FileExistsError if the target exists; elsewhere the target is replaced
PRename(i) ==
    /\ procs[i].pc = "rename"
    /\ LET final == jdk_archive_path(PlatformOf(i))
       IN  IF \/ TmpPathOf(i) \notin DOMAIN cache
              \/ /\ osName = "nt"
                 /\ \/ OpenElsewhere(cache[TmpPathOf(i)], i)
                    \/ final \in DOMAIN cache
           THEN /\ procs' = Ended(i)
                /\ UNCHANGED <<cache, collisions>>
           ELSE /\ cache' = Put(Drop(cache, {TmpPathOf(i)}), final, cache[TmpPathOf(i)])
                /\ collisions' = Hit(i, cache[TmpPathOf(i)], "rename")
                /\ procs' = [procs EXCEPT ![i] = Proc("extract", @.idx, 0, FALSE, 0)]
    /\ UNCHANGED <<inodes, sequential>>

\* step 3 reads the cache entry; after it and the steps that follow it the
\* loop of main goes on to the next platform
PExtract(i) ==
    /\ procs[i].pc = "extract"
    /\ LET p == PlatformOf(i)
       IN  IF inodes[cache[jdk_archive_path(p)]] = Content(p.jdk.id)
           THEN procs' = [procs EXCEPT ![i].pc =
                             IF procs[i].idx < Len(platforms) THEN "exists" ELSE "done",
                                        ![i].idx =
                             IF procs[i].idx < Len(platforms) THEN @ + 1 ELSE @]
           ELSE procs' = Ended(i)
    /\ UNCHANGED <<cache, inodes, collisions, sequential>>

ConcNext ==
    \E i \in Invocations :
        \/ PExists(i)
        \/ PUnlink(i)
        \/ PLookup(i)
        \/ PRequest(i)
        \/ POpen(i)
        \/ PWrite(i)
        \/ PClose(i)
        \/ PRename(i)
        \/ PExtract(i)

ConcSpec == ConcInit /\ [][ConcNext]_vars

\* ------------------------------------------- dispatch on the descriptor
\* What package_platform selects by the three selectors of a platform
\* descriptor (jdk.archive_type, shell_type, compress_to), for two
\* descriptors drawn from all combinations of the selectors and packaged
\* with the same extracted tree, version and host.
AllPlatforms ==
    { Platform("any", JDK("kona-any", a), "any", sh, c) :
        a \in ArchiveType, sh \in ShellType, c \in ArchiveType }

\* if platform.jdk.archive_type == ArchiveType.ZIP: zipfile ... else: tarfile
ExtractMethod(p) ==
    IF p.jdk.archive_type = ZIP THEN "zipfile.ZipFile" ELSE "tarfile.open r:gz"

NoLauncher == File(<< >>, "none")

\* the names, methods and files package_platform comes to for descriptor p
\* when the archive of the runtime holds a tree of the given kind
Selected(p, kind, v, os) ==
    LET tree == Extracted(Blob(p.jdk.id, kind, TotalChunks, "net"), os)
        jar == jar_name(p, v)
        withJar == Put(tree, <<jar>>, File(<<"jar">> \o jar, DefaultMode(os)))
        found == JavaCandidates(withJar, p)
        launcher == IF found = {} THEN NoLauncher
                    ELSE Launcher(p, CHOOSE path \in found : TRUE, v, os)
        bundle == IF found = {} THEN withJar
                  ELSE Put(withJar, <<script_name(p)>>, launcher)
    IN  [extension |-> EXTENSION(p.jdk.archive_type),
         cacheName |-> jdk_archive_path(p),
         method |-> ExtractMethod(p),
         javaName |-> JavaName(p),
         found |-> found,
         scriptName |-> script_name(p),
         launcher |-> launcher,
         archiveName |-> archive_name(p, v),
         archive |-> Compressed(p, bundle, final_dir_name(p, v))]

DispatchInit ==
    /\ platforms = <<WindowsPlatform, LinuxPlatform>>
    /\ osName \in OsNames
    /\ runs = 0
    /\ version_tag \in Versions
    /\ pc = "idle"
    /\ idx = 0
    /\ res = -1
    /\ tmp = [exists |-> TRUE, subs |-> EmptyDir]
    /\ jdks = [exists |-> TRUE, files |-> EmptyDir]
    /\ out = [exists |-> TRUE, dirs |-> EmptyDir, archives |-> EmptyDir]
    /\ libs = {}
    /\ resp = "none"
    /\ java_bin_path = NoPath
    /\ events = << >>
    /\ failure = NoFailure
    /\ netCalls = [i \in Ids |-> 0]
    /\ fetchLog = [i \in Ids |-> << >>]
    /\ gradle_res = -1
    /\ fs0 = <<tmp, jdks, out>>
    /\ prev = NoRun
    /\ assembled = EmptyDir
    /\ cache = EmptyDir
    /\ inodes = << >>
    /\ procs = << >>
    /\ collisions = {}
    /\ \E p \in AllPlatforms, q \in AllPlatforms, kind \in {"unix", "win"} :
          dispatched = [done |-> FALSE, p |-> p, q |-> q, kind |-> kind,
                        sel |-> << >>]

\* package_platform is applied to both descriptors
Dispatch ==
    /\ ~dispatched.done
    /\ dispatched' =
          [dispatched EXCEPT
              !.done = TRUE,
              !.sel = << Selected(dispatched.p, dispatched.kind, version_tag, osName),
                         Selected(dispatched.q, dispatched.kind, version_tag, osName) >>]
    /\ UNCHANGED <<concurrent, platforms, osName, runs, version_tag, pc, idx,
                   res, tmp, jdks, out, libs, resp, java_bin_path, events,
                   failure, netCalls, fetchLog, gradle_res, fs0, prev,
                   assembled>>

DispatchNext == Dispatch

DispatchSpec == DispatchInit /\ [][DispatchNext]_vars

\* ================================================================ claims
CacheNames == DOMAIN jdks.files \ {jdk_archive_path_tmp}

Stages == {"scratch", "download", "extract", "assemble", "relocate", "compress"}

\* the stages of which platform i has executed a step in this invocation
StagesOf(i) == { events[k].stage : k \in { j \in 1..Len(events) : events[j].plat = i } }

\* the steps of the given name executed in this invocation
StepsNamed(step) == { k \in 1..Len(events) : events[k].step = step }

\* C1: download atomicity.  A file under a final cache name is either the
\* file that was there when the invocation began or a completely written
\* download, and after an interrupted download (transport or HTTP error)
\* no file exists under the final cache name of that runtime.
C1_DownloadAtomic ==
    /\ \A n \in CacheNames :
        \/ n \in DOMAIN fs0[2].files /\ fs0[2].files[n] = jdks.files[n]
        \/ jdks.files[n].origin = "net" /\ Complete(jdks.files[n])
    /\ (pc = "done" /\ failure.kind = "DownloadFailure")
          => jdk_archive_path(platforms[failure.plat]) \notin DOMAIN jdks.files

\* a download was interrupted after the first block was written
C1_Witness ==
    /\ pc = "done"
    /\ failure.kind = "DownloadFailure"
    /\ jdk_archive_path_tmp \in DOMAIN jdks.files
    /\ jdks.files[jdk_archive_path_tmp].chunks = 1

\* C2 as stated: at most one network transfer per runtime id, over two
\* executions of the fetch step.
C2_AtMostOneTransfer == \A id \in Ids : netCalls[id] <= 1

\* C2 amended: once a fetch for a runtime has completed, every later fetch
\* for it is a cache hit under the same path and no request is made for it;
\* at most one download per runtime is ever renamed into the cache.
C2_CacheIdempotent ==
    /\ \A id \in Ids :
        \A j \in 2..Len(fetchLog[id]) :
            /\ fetchLog[id][j].how = "hit"
            /\ fetchLog[id][j].path = fetchLog[id][1].path
    /\ pc \in {"request", "stream"} => fetchLog[platform.jdk.id] = << >>
    /\ \A id \in Ids :
        fetchLog[id] # << >> => fetchLog[id][1].path \in DOMAIN jdks.files

\* a runtime was downloaded once and a later fetch for it hit the cache
C2_Witness ==
    \E id \in Ids :
        /\ Len(fetchLog[id]) >= 2
        /\ fetchLog[id][1].how = "download"
        /\ netCalls[id] = 1

\* C3: fail-fast ordering.  In a registry of at least three platforms whose
\* second platform fails at extraction, platform 1 went through every stage
\* and its bundle and archive are in the output directory, the invocation
\* ends with the failure of platform 2, and no step of platform 3 or later
\* was executed.
C3_FailFast ==
    ( /\ Len(platforms) >= 3
      /\ failure.plat = 2
      /\ failure.stage = "extract" )
    => /\ pc = "done"
       /\ res = 1
       /\ StagesOf(1) = Stages
       /\ final_dir_name(platforms[1], version_tag) \in DOMAIN out.dirs
       /\ out.dirs[final_dir_name(platforms[1], version_tag)]
             = assembled[platforms[1].key]
       /\ archive_name(platforms[1], version_tag) \in DOMAIN out.archives
       /\ out.archives[archive_name(platforms[1], version_tag)].complete
       /\ events[Len(events)] = Event(2, "extract", "extractall")
       /\ \A k \in 1..Len(events) : events[k].plat <= 2

C3_Witness ==
    /\ Len(platforms) >= 3
    /\ pc = "done"
    /\ failure.plat = 2
    /\ failure.stage = "extract"

\* C4: the build step runs exactly once per invocation and before every
\* platform stage; when it returns non-zero the invocation ends with that
\* code, no platform stage runs, and scratch, cache and output directories
\* are as they were when the invocation began.
C4_BuildFirst ==
    /\ pc \notin {"idle", "build"}
          => /\ Len(events) >= 1
             /\ StepsNamed("gradle") = {1}
    /\ pc = "build" => events = << >>
    /\ (pc \notin {"idle", "build"} /\ gradle_res # 0)
          => /\ pc = "done"
             /\ res = gradle_res
             /\ Len(events) = 1
             /\ <<tmp, jdks, out>> = fs0

\* the build failed in a workspace that holds earlier results
C4_Witness ==
    /\ pc = "done"
    /\ gradle_res = 2
    /\ tmp.exists
    /\ out.exists
    /\ libs # {}

\* platform i went through all stages without a failure
Completed(i) == StagesOf(i) = Stages /\ failure.plat # i

Indexes == 1..Len(platforms)

\* the bundle directory and the archive of every platform are exactly what
\* this invocation assembled
OutputsAsAssembled ==
    \A i \in Indexes :
       LET p == platforms[i]
           root == final_dir_name(p, version_tag)
       IN  /\ p.key \in DOMAIN assembled
           /\ root \in DOMAIN out.dirs
           /\ out.dirs[root] = assembled[p.key]
           /\ archive_name(p, version_tag) \in DOMAIN out.archives
           /\ out.archives[archive_name(p, version_tag)]
                 = Compressed(p, assembled[p.key], root)

\* failures that come from outside the pipeline: the build, the network,
\* the content of a runtime archive, a missing jar, an I/O error
External == {"BuildFailure", "DownloadFailure", "ExtractionFailure",
             "MissingArtifact", "MissingExecutable", "CompressionFailure"}

\* C5: relocation idempotence.  Running the pipeline twice for the same
\* version succeeds both times (unless the build, the network, an archive,
\* a jar or the disk fails), and after the second run every bundle
\* directory and archive is exactly what the second run assembled.
C5_TwiceSucceeds ==
    ( /\ runs >= 2
      /\ pc = "done"
      /\ prev.version = version_tag
      /\ prev.kind \notin External
      /\ failure.kind \notin External )
    => /\ prev.res = 0
       /\ res = 0
       /\ OutputsAsAssembled

\* C5, the part that holds: when the pipeline ran successfully and is run
\* again for the same version, the second run can only fail for a reason
\* outside the pipeline (build, missing jar, I/O error on the archive), and
\* after its success every bundle directory and archive is exactly what the
\* second run assembled: nothing of the earlier content of the output
\* directory is left in them.
C5_RelocationIdempotent ==
    ( /\ pc = "done"
      /\ prev.res = 0
      /\ prev.version = version_tag )
    => /\ res # 0 => failure.kind \in {"BuildFailure", "MissingArtifact",
                                       "CompressionFailure"}
       /\ res = 0 => OutputsAsAssembled

\* the second of two successful runs for one version has finished, and the
\* output directory held the bundles of the first when it began
C5_Witness ==
    /\ pc = "done"
    /\ res = 0
    /\ prev.res = 0
    /\ prev.version = version_tag
    /\ \A i \in Indexes :
          final_dir_name(platforms[i], version_tag) \in DOMAIN fs0[3].dirs

\* the archive of platform i was written completely in this invocation
Archived(i) ==
    /\ \E k \in 1..Len(events) : events[k] = Event(i, "compress", "write")
    /\ archive_name(platforms[i], version_tag) \in DOMAIN out.archives
    /\ out.archives[archive_name(platforms[i], version_tag)].complete

\* C6: every entry of a ZIP archive the pipeline wrote has a path whose
\* first component is finalName.
C6_ZipEntriesRooted ==
    \A i \in Indexes :
        (Archived(i) /\ platforms[i].compress_to = ZIP)
        => \A q \in DOMAIN out.archives[archive_name(platforms[i], version_tag)].entries :
              q[1] = final_dir_name(platforms[i], version_tag)

\* C7: the end-to-end scenario.  One platform (TGZ runtime, BASH launcher,
\* TGZ output), a readable cache entry when the invocation began, a
\* successful build that left the jar, version 1.2.3, no I/O error: the
\* invocation makes no request, returns 0 and leaves the archive with the
\* jar, the runtime tree and the executable launcher under the root.
C7_EndToEnd ==
    ( /\ Len(platforms) = 1
      /\ platforms[1].jdk.archive_type = TGZ
      /\ platforms[1].shell_type = BASH
      /\ platforms[1].compress_to = TGZ
      /\ version_tag = <<"1.2.3">>
      /\ pc = "done"
      /\ gradle_res = 0
      /\ jar_name(platforms[1], version_tag) \in libs
      /\ jdk_archive_path(platforms[1]) \in DOMAIN fs0[2].files
      /\ Extractable(fs0[2].files[jdk_archive_path(platforms[1])])
      /\ failure.kind # "CompressionFailure" )
    => LET p == platforms[1]
           root == final_dir_name(p, version_tag)
           name == archive_name(p, version_tag)
           tree == RuntimeTree("unix", p.jdk.id)
       IN  /\ res = 0
           /\ StepsNamed("request") = {}
           /\ name = <<"janus-", "1.2.3", "-", p.key, ".", "tar.gz">>
           /\ name \in DOMAIN out.archives
           /\ LET e == out.archives[name].entries
              IN  /\ \A q \in DOMAIN e : q[1] = root
                  /\ <<root, jar_name(p, version_tag)>> \in DOMAIN e
                  /\ \A t \in DOMAIN tree : <<root>> \o t \in DOMAIN e
                  /\ <<root, <<script_base_name, ".sh">>>> \in DOMAIN e
                  /\ e[<<root, <<script_base_name, ".sh">>>>].mode = "0o755"

\* C8: the exit code is 0 exactly if the build returned 0 and every
\* platform went through all its stages; otherwise it is not 0 and it is
\* the code of the first failure: the build's return code, or 1 for the
\* first failing platform stage, before which every earlier platform was
\* completed and after which nothing was executed.
C8_ExitCode ==
    pc = "done" =>
       /\ res = 0 <=> (gradle_res = 0 /\ \A i \in Indexes : Completed(i))
       /\ res = 0 => failure = NoFailure
       /\ res # 0 =>
            /\ failure # NoFailure
            /\ events[Len(events)].plat = failure.plat
            /\ events[Len(events)].stage = failure.stage
            /\ \A j \in 1..(failure.plat - 1) : Completed(j)
            /\ \A k \in 1..Len(events) : events[k].plat <= failure.plat
            /\ res = IF failure.kind = "BuildFailure" THEN gradle_res ELSE 1

\* the second platform failed because its executable was not found
C8_Witness ==
    /\ pc = "done"
    /\ res = 1
    /\ failure.plat = 2
    /\ failure.kind = "MissingExecutable"

\* the files of an archive, relative to the bundle directory
RelFiles(a, root) ==
    IF a.format = TGZ
    THEN { Tail(q) : q \in { x \in DOMAIN a.entries : x[1] = root } }
    ELSE DOMAIN a.entries

\* the name of the archive of p in the format that is not its output format
OtherArchiveName(p, v) ==
    final_dir_name(p, v) \o <<".", EXTENSION(IF p.compress_to = ZIP THEN TGZ ELSE ZIP)>>

\* ---- reading a launcher as its interpreter does
RECURSIVE SplitOn(_, _, _)
\* the pieces of text between the atoms sep; cur is the piece being read
SplitOn(text, sep, cur) ==
    IF Len(text) = 0 THEN <<cur>>
    ELSE IF text[1] = sep THEN <<cur>> \o SplitOn(Tail(text), sep, << >>)
    ELSE SplitOn(Tail(text), sep, Append(cur, text[1]))

\* the lines of a text, each without its "\n"
LinesOf(text) ==
    LET pieces == SplitOn(text, "\n", << >>)
    IN  IF pieces[Len(pieces)] = << >> THEN SubSeq(pieces, 1, Len(pieces) - 1)
        ELSE pieces

\* the words the shell splits a command line into
WordsOf(line) == SelectSeq(SplitOn(line, " ", << >>), LAMBDA w : w # << >>)

RECURSIVE StripCR(_)
StripCR(line) ==
    IF Len(line) > 0 /\ line[Len(line)] = "\r"
    THEN StripCR(SubSeq(line, 1, Len(line) - 1))
    ELSE line

\* the command line the contract asks for: the executable by its path
\* relative to the bundle root, the native-access flag, the jar, and the
\* caller's arguments
Invocation(exe, jar, args) == <<exe, <<NATIVE_FLAG>>, <<"-jar">>, jar, <<args>>>>

LauncherOK(p, f, path, v) ==
    LET ls == LinesOf(f.data)
    IN  IF p.shell_type = BASH
        THEN /\ Len(ls) = 2
             /\ ls[1][1] = "#!/bin/bash"
             /\ f.mode = "0o755"
             /\ WordsOf(ls[2]) = Invocation(<<".", "/">> \o PathStr(path, "posix"),
                                            jar_name(p, v), "\"$@\"")
        ELSE /\ Len(ls) = 2
             /\ \A k \in 1..Len(ls) : Len(ls[k]) > 0 /\ ls[k][Len(ls[k])] = "\r"
             /\ StripCR(ls[1]) = <<"@echo off">>
             /\ \E os \in OsNames :
                   WordsOf(StripCR(ls[2])) = Invocation(PathStr(path, os),
                                                        jar_name(p, v), "%*")

\* C9: the launcher invocation contract.  Whenever a launcher has been
\* written, its command line is the located executable by a path relative
\* to the bundle root, the native-access flag, the jar and the forwarded
\* arguments; a BASH launcher starts with a shebang and has mode 0755, a
\* BAT launcher turns echo off and ends every line in CRLF; the script
\* names of the two kinds differ in the extension only.
C9_LauncherContract ==
    pc = "relocate" =>
       /\ <<script_name(platform)>> \in DOMAIN platform_tmp_folder
       /\ LauncherOK(platform, platform_tmp_folder[<<script_name(platform)>>],
                     java_bin_path, version_tag)
       /\ script_name(platform)[1] = script_base_name
       /\ script_name(platform)[2] = (IF platform.shell_type = BAT THEN ".bat" ELSE ".sh")

\* C10: after exit code 0 the output directory holds, for every platform,
\* its bundle directory and its complete archive in the platform's output
\* format, no archive of the other format was written for it, and the
\* archive's files are the files of the bundle directory.
C10_OutputComplete ==
    (pc = "done" /\ res = 0) =>
       \A i \in Indexes :
          LET p == platforms[i]
              root == final_dir_name(p, version_tag)
              name == archive_name(p, version_tag)
              other == OtherArchiveName(p, version_tag)
          IN  /\ root \in DOMAIN out.dirs
              /\ name \in DOMAIN out.archives
              /\ out.archives[name].complete
              /\ out.archives[name].format = p.compress_to
              /\ RelFiles(out.archives[name], root) = DOMAIN out.dirs[root]
              /\ Cardinality(DOMAIN out.archives[name].entries)
                    = Cardinality(DOMAIN out.dirs[root])
              /\ other \in DOMAIN out.archives
                    => /\ other \in DOMAIN fs0[3].archives
                       /\ out.archives[other] = fs0[3].archives[other]

\* a registry of three platforms with both output formats was packaged
C10_Witness ==
    /\ pc = "done"
    /\ res = 0
    /\ Len(platforms) = 3
    /\ \A i \in Indexes :
          Cardinality(DOMAIN out.dirs[final_dir_name(platforms[i], version_tag)]) >= 5

\* the step that may follow step a of a platform, in package_platform
FollowsIn(a, b) ==
    LET is(e, stage, step) == e.stage = stage /\ e.step = step
    IN  \/ is(a, "scratch", "rmtree") /\ b.stage = "download" /\ b.step \in {"hit", "miss"}
        \/ is(a, "download", "miss") /\ is(b, "download", "request")
        \/ is(a, "download", "request") /\ is(b, "download", "write")
        \/ is(a, "download", "write") /\ b.stage = "download" /\ b.step \in {"write", "rename"}
        \/ is(a, "download", "hit") /\ is(b, "extract", "extractall")
        \/ is(a, "download", "rename") /\ is(b, "extract", "extractall")
        \/ is(a, "extract", "extractall") /\ is(b, "assemble", "copyjar")
        \/ is(a, "assemble", "copyjar") /\ is(b, "assemble", "findjava")
        \/ is(a, "assemble", "findjava") /\ is(b, "assemble", "script")
        \/ is(a, "assemble", "script") /\ is(b, "relocate", "move")
        \/ is(a, "relocate", "move") /\ is(b, "compress", "write")

\* C11: strict sequencing.  The steps of a run are the build, then the
\* platforms in registry order beginning with the first; every step of a
\* platform is followed by the next step of the same platform in the order
\* scratch setup, download or cache hit, extraction, artifact copy,
\* executable location, launcher generation, relocation, compression, or,
\* after the compression, by the scratch setup of the next registry entry;
\* a step that failed is the last step of the run.
C11_StrictSequence ==
    /\ \A k \in 1..Len(events) : events[k].plat = 0 <=> k = 1
    /\ Len(events) >= 2 => events[2] = Event(1, "scratch", "rmtree")
    /\ \A k \in 2..(Len(events) - 1) :
          LET a == events[k]
              b == events[k + 1]
          IN  \/ b.plat = a.plat /\ FollowsIn(a, b)
              \/ /\ b.plat = a.plat + 1
                 /\ a = Event(a.plat, "compress", "write")
                 /\ b = Event(b.plat, "scratch", "rmtree")
    /\ failure # NoFailure =>
          /\ pc = "done"
          /\ events[Len(events)].plat = failure.plat
          /\ events[Len(events)].stage = failure.stage
    /\ (pc \notin {"idle", "build", "scratch", "done"}) =>
          events[Len(events)].plat = idx
    /\ (pc = "scratch" /\ idx > 1) =>
          events[Len(events)] = Event(idx - 1, "compress", "write")

\* three platforms were packaged in one run, two of them after a download
\* and the third from the cache entry the first had created
C11_Witness ==
    /\ pc = "done"
    /\ res = 0
    /\ Len(platforms) = 3
    /\ Cardinality(StepsNamed("rename")) = 2
    /\ Cardinality(StepsNamed("hit")) = 1

\* the final cache names of the registry
FinalNames == { jdk_archive_path(platforms[k]) : k \in 1..Len(platforms) }

\* the runtime id a final cache name stands for
IdOf(name) == name[1]

\* the file under a final cache name is not the complete archive of the
\* runtime the name stands for
Damaged(name) ==
    /\ name \in DOMAIN cache
    /\ inodes[cache[name]] # Content(IdOf(name))

\* C12: concurrent runs are unsafe.  Two interleaved invocations use one
\* name for the temporary download file, so two downloads in flight are the
\* same file or one invocation has removed or overwritten the file of the
\* other; no file under a final cache name is incomplete or holds blocks of
\* another runtime unless such a collision has happened.  The state in which
\* a collision has left such a file under a final cache name is reachable
\* (C12_Witness).
C12_SharedTemporary ==
    /\ \A i \in Invocations, j \in Invocations :
          (i # j /\ procs[i].ino # 0 /\ procs[j].ino # 0)
          => \/ procs[i].ino = procs[j].ino
             \/ \E c \in collisions : {c.by, c.of} = {i, j}
    /\ (\E name \in FinalNames : Damaged(name)) => collisions # {}

\* one invocation removed or overwrote the temporary file of the other, and
\* a final cache name now holds a closed file with blocks of another runtime
\* than the name stands for
C12_Witness ==
    /\ collisions # {}
    /\ \E name \in FinalNames :
          /\ Damaged(name)
          /\ \E k \in 1..Len(inodes[cache[name]]) :
                inodes[cache[name]][k] \notin {IdOf(name), Hole}
          /\ \A i \in Invocations : procs[i].ino # cache[name]

\* a collision left an incomplete file under a final cache name
C12_IncompleteReached ==
    /\ collisions # {}
    /\ \E name \in FinalNames :
          /\ Damaged(name)
          /\ \A k \in 1..Len(inodes[cache[name]]) :
                inodes[cache[name]][k] \in {IdOf(name), Hole}
          /\ \A i \in Invocations : procs[i].pc \in {"done", "failed"}

\* every file under a final cache name is still there, unchanged, after
\* the step
EntriesKept ==
    \A n \in CacheNames :
        n \in DOMAIN jdks'.files /\ jdks'.files[n] = jdks.files[n]

\* a run that began with an unreadable cache entry for platform i does not
\* get past platform i: it makes no request for it, its extraction fails,
\* and the run ends with a non-zero status
StuckAt(i) ==
    LET n == jdk_archive_path(platforms[i])
    IN  ( /\ runs >= 1
          /\ n \in DOMAIN fs0[2].files
          /\ ~Extractable(fs0[2].files[n]) )
        => /\ \A k \in 1..Len(events) :
                /\ events[k].plat <= i
                /\ events[k].plat = i =>
                      events[k].step \notin {"miss", "request", "write", "rename"}
           /\ (\E k \in 1..Len(events) : events[k] = Event(i, "extract", "extractall"))
                 => /\ pc = "done"
                    /\ res = 1
                    /\ failure = [plat |-> i, stage |-> "extract",
                                  kind |-> "ExtractionFailure"]
           /\ pc = "done" => res # 0

\* C13: cache entries are permanent.  No step of the pipeline deletes,
\* renames or rewrites a file under a final cache name, also not the
\* extraction that fails on it; and a run that begins with a cache entry
\* that cannot be extracted never gets past the platform of that entry:
\* it makes no network transfer for it, fails in its extraction when it
\* reaches it, and ends with a non-zero status.
C13_CachePermanent ==
    /\ [][EntriesKept]_vars
    /\ [](\A i \in Indexes : StuckAt(i))

\* a run downloaded an archive that cannot be read and failed extracting
\* it; the next run found that entry, made no request and failed at the
\* same platform
C13_Witness ==
    /\ runs = 2
    /\ pc = "done"
    /\ prev.kind = "ExtractionFailure"
    /\ failure.kind = "ExtractionFailure"
    /\ LET n == jdk_archive_path(platforms[failure.plat])
       IN  /\ n \in DOMAIN fs0[2].files
           /\ fs0[2].files[n].origin = "net"
           /\ jdks.files[n] = fs0[2].files[n]
    /\ StepsNamed("request") = {}

\* C14: removal of a stale temporary file.  When a download is about to
\* begin (and after a cache hit) no temporary file exists, whatever an
\* earlier run left behind; while the download is written the temporary
\* file holds blocks of this transfer only, and so does the cache entry it
\* is renamed to; the temporary name differs from every final cache name.
C14_StaleRemoved ==
    /\ pc \in {"request", "extract"} => jdk_archive_path_tmp \notin DOMAIN jdks.files
    /\ pc = "stream" =>
          /\ jdk_archive_path_tmp \in DOMAIN jdks.files
          /\ jdks.files[jdk_archive_path_tmp].origin = "net"
          /\ jdks.files[jdk_archive_path_tmp].id = platform.jdk.id
          /\ jdks.files[jdk_archive_path_tmp].kind = resp
          /\ jdks.files[jdk_archive_path_tmp].chunks
                = Cardinality({ k \in StepsNamed("write") :
                                   events[k].plat = idx /\ events[k].stage = "download" })
    /\ \A n \in CacheNames :
          jdks.files[n].origin = "net" =>
              /\ jdks.files[n].id = n[1]
              /\ jdks.files[n].chunks = TotalChunks
    /\ \A i \in Indexes : jdk_archive_path_tmp # jdk_archive_path(platforms[i])
    /\ \A t \in ArchiveType, id \in Ids \cup {"jdk", "jdk.part"} :
          <<id, ".", EXTENSION(t)>> # jdk_archive_path_tmp

\* the run began with a temporary file of an interrupted run in the cache
\* directory and has created a cache entry by a download
C14_Witness ==
    /\ jdk_archive_path_tmp \in DOMAIN fs0[2].files
    /\ fs0[2].files[jdk_archive_path_tmp].origin = "pre"
    /\ \E n \in CacheNames :
          /\ n \notin DOMAIN fs0[2].files
          /\ jdks.files[n].origin = "net"

\* C15: scratch setup succeeds from any initial state of the file system.
\* Step 1 of a platform never fails, and after it the scratch root, the
\* cache directory and the output directory exist, the scratch
\* subdirectory of the platform exists and is empty, and the download
\* stage is next.
C15_ScratchSucceeds ==
    /\ failure.stage # "scratch"
    /\ (Len(events) >= 2 /\ events[Len(events)].stage = "scratch") =>
          /\ pc = "fetch"
          /\ tmp.exists
          /\ jdks.exists
          /\ out.exists
          /\ platform.key \in DOMAIN tmp.subs
          /\ tmp.subs[platform.key] = EmptyDir

\* the number of times this run has removed the scratch root
RootWipes == Cardinality(StepsNamed("rmtree"))

\* C16: in a run over n platforms the scratch root is wiped exactly once,
\* at the start of the run; the later platforms wipe their own scratch
\* subdirectory only.
C16_RootWipedOnce ==
    /\ RootWipes <= 1
    /\ (pc = "done" /\ gradle_res = 0) => RootWipes = 1

\* the failures of a platform before its bundle is assembled
BeforeRelocation == {"DownloadFailure", "ExtractionFailure", "MissingArtifact",
                     "MissingExecutable"}

\* the step changes an entry of the output directory only in relocation or
\* compression, and it removes or replaces a bundle directory only in the
\* relocation of the platform that has this name
OutputStep ==
    /\ (out'.dirs # out.dirs \/ out'.archives # out.archives)
          => pc \in {"relocate", "compress"}
    /\ \A n \in DOMAIN out.dirs :
          (n \notin DOMAIN out'.dirs \/ out'.dirs[n] # out.dirs[n])
          => pc = "relocate" /\ n = final_dir_name(platform, version_tag)

\* entry n of directory d is as it was in directory d0
SameEntry(d, d0, n) ==
    IF n \in DOMAIN d0 THEN n \in DOMAIN d /\ d[n] = d0[n] ELSE n \notin DOMAIN d

\* C17: the output directory is modified only after assembly succeeded.
\* No step before the relocation changes an entry of the output directory,
\* and a bundle directory is removed or replaced only by the relocation of
\* its platform; after a platform failed at download, extraction, missing
\* artifact or missing executable its bundle directory and archive are as
\* they were when the run began, and so is the whole output directory when
\* it was the first platform.
C17_OutputAfterAssembly ==
    /\ [][OutputStep]_vars
    /\ []( (pc = "done" /\ failure.kind \in BeforeRelocation) =>
             LET p == platforms[failure.plat]
             IN  /\ SameEntry(out.dirs, fs0[3].dirs, final_dir_name(p, version_tag))
                 /\ SameEntry(out.archives, fs0[3].archives, archive_name(p, version_tag))
                 /\ failure.plat = 1 =>
                       /\ out.dirs = fs0[3].dirs
                       /\ out.archives = fs0[3].archives )

\* the second platform failed because its executable was not found, after
\* the first was packaged; bundle and archive of an earlier run are there
C17_Witness ==
    /\ pc = "done"
    /\ failure.plat = 2
    /\ failure.kind = "MissingExecutable"
    /\ LET root == final_dir_name(platforms[2], version_tag)
           name == archive_name(platforms[2], version_tag)
       IN  /\ root \in DOMAIN out.dirs
           /\ out.dirs[root] = StaleTree
           /\ name \in DOMAIN out.archives
           /\ out.archives[name].entries = StaleTree
    /\ out.dirs[final_dir_name(platforms[1], version_tag)] # StaleTree

\* the name of the runtime executable for the launcher kind of p
ExecutableName(p) == IF p.shell_type = BAT THEN <<"java.exe">> ELSE <<"java">>

\* the paths in `among` that lie directly inside a directory named bin and
\* have the executable's name
InBin(among, p) ==
    { path \in among :
        /\ Len(path) >= 2
        /\ path[Len(path) - 1] = <<"bin">>
        /\ path[Len(path)] = ExecutableName(p) }

\* the outcome of the executable location, when `found` says whether the
\* tree of the platform holds what is looked for
LocationOutcome(found(_, _)) ==
    /\ pc = "script" => found(platform_tmp_folder, platform)
    /\ failure.kind = "MissingExecutable" =>
          LET p == platforms[failure.plat]
          IN  /\ ~found(tmp.subs[p.key], p)
              /\ <<script_name(p)>> \notin DOMAIN tmp.subs[p.key]
              /\ jar_name(p, version_tag) \in libs
    /\ (pc = "done" /\ failure.stage = "assemble"
                    /\ jar_name(platforms[failure.plat], version_tag) \notin libs)
          => failure.kind = "MissingArtifact"
    /\ (pc \in {"script", "relocate"} /\ java_bin_path # NoPath)
          => java_bin_path \in InBin(Entries(platform_tmp_folder), platform)

\* C18: executable location.  Assembly goes on to the launcher if and only
\* if the extracted tree holds a file directly inside a directory named bin
\* whose name is exactly java.exe for a BAT launcher and java for a BASH
\* launcher; otherwise the platform fails with MissingExecutable and no
\* launcher is written; when the jar is missing too, the failure is
\* MissingArtifact.
C18_ExecutableLocation ==
    LocationOutcome(LAMBDA d, p : InBin(DOMAIN d, p) # {})

\* C18 with "file or directory" for "file": this holds
C18_EntryLocation ==
    LocationOutcome(LAMBDA d, p : InBin(Entries(d), p) # {})

\* every entry of the archive lies under the root
Rooted(a, root) == \A e \in DOMAIN a.entries : e[1] = root

\* C19: independence of dispatch.  For two descriptors of any combination
\* of runtime archive format, launcher kind and output format, packaged
\* with the same tree, version and host: equal runtime archive formats give
\* the same cache file name and extension and the same extraction method;
\* equal launcher kinds give the same executable searched and found and the
\* same launcher name, content and mode; equal output formats give the
\* same archive name, format and layout; descriptors that differ in the
\* runtime archive format only give the same launcher and the same archive.
C19_DispatchIndependent ==
    dispatched.done =>
       LET p == dispatched.p
           q == dispatched.q
           a == dispatched.sel[1]
           b == dispatched.sel[2]
           root == final_dir_name(p, version_tag)
       IN  /\ p.jdk.archive_type = q.jdk.archive_type =>
                 /\ a.extension = b.extension
                 /\ a.cacheName = b.cacheName
                 /\ a.method = b.method
           /\ p.jdk.archive_type # q.jdk.archive_type =>
                 /\ a.extension # b.extension
                 /\ a.method # b.method
           /\ p.shell_type = q.shell_type =>
                 /\ a.javaName = b.javaName
                 /\ a.found = b.found
                 /\ a.scriptName = b.scriptName
                 /\ a.launcher = b.launcher
           /\ p.compress_to = q.compress_to =>
                 /\ a.archiveName = b.archiveName
                 /\ a.archive.format = b.archive.format
                 /\ Rooted(a.archive, root) = Rooted(b.archive, root)
           /\ (p.shell_type = q.shell_type /\ p.compress_to = q.compress_to) =>
                 /\ a.launcher = b.launcher
                 /\ a.archiveName = b.archiveName
                 /\ a.archive = b.archive

\* two descriptors that differ in the runtime archive format only, one of
\* them a combination the registry does not hold (TGZ runtime, BAT
\* launcher), were packaged and a launcher was written
C19_Witness ==
    /\ dispatched.done
    /\ dispatched.p.jdk.archive_type = TGZ
    /\ dispatched.q.jdk.archive_type = ZIP
    /\ dispatched.p.shell_type = BAT
    /\ dispatched.q.shell_type = BAT
    /\ dispatched.p.compress_to = dispatched.q.compress_to
    /\ dispatched.sel[1].launcher # NoLauncher
    /\ <<script_name(dispatched.p)>> \in DOMAIN dispatched.sel[1].archive.entries

\* a scratch subdirectory that holds at least one file
Populated == { k \in DOMAIN tmp.subs : tmp.subs[k] # EmptyDir }

\* C20: no staging is left after success.  When a platform has been
\* packaged successfully the temporary download file does not exist and the
\* scratch root holds no subdirectory (the platform's was moved to the
\* output directory); a temporary download file or a populated scratch
\* subdirectory at the end of a run is either one that was there before the
\* run and was never reached, or was left by the platform that failed: the
\* temporary file by a failed download, the subdirectory by the failing
\* platform.
C20_NoStaging ==
    /\ (Len(events) >= 2 /\ events[Len(events)].stage = "compress"
                         /\ failure = NoFailure) =>
          /\ jdk_archive_path_tmp \notin DOMAIN jdks.files
          /\ tmp.subs = EmptyDir
    /\ (pc = "done" /\ res = 0) =>
          /\ jdk_archive_path_tmp \notin DOMAIN jdks.files
          /\ tmp.subs = EmptyDir
    /\ (pc = "done" /\ jdk_archive_path_tmp \in DOMAIN jdks.files) =>
          /\ res # 0
          /\ \/ failure.kind = "DownloadFailure"
             \/ /\ failure.kind \in {"BuildFailure", "ScratchFailure"}
                /\ failure.plat <= 1
                /\ jdks = fs0[2]
    /\ (pc = "done" /\ Populated # {}) =>
          /\ res # 0
          /\ \/ /\ failure.plat >= 1
                /\ failure.stage \notin {"scratch", "relocate", "compress"}
                /\ Populated = {platforms[failure.plat].key}
             \/ /\ failure.kind \in {"BuildFailure", "ScratchFailure"}
                /\ failure.plat <= 1
                /\ tmp = fs0[1]

\* three platforms were packaged, two of them after a download, in a
\* workspace that held a stale temporary file and a stale scratch folder
C20_Witness ==
    /\ pc = "done"
    /\ res = 0
    /\ Len(platforms) = 3
    /\ StepsNamed("rename") # {}
    /\ jdk_archive_path_tmp \in DOMAIN fs0[2].files
    /\ fs0[1].subs # EmptyDir

====
